---- MODULE Spec2Model ----
(***************************************************************************)
(* A model of the rio cache and bind placer:                               *)
(*   - cache.Unpack        (src/fs/osfs/osfs.go, package cache)            *)
(*   - placer.BindPlacer   (src/unnamed/part_000)                          *)
(* The unpack tool (rio.UnpackFunc) and the host's mount table are the     *)
(* environment of the program; they are modelled by what they can do to    *)
(* the state the program shares with them.                                 *)
(***************************************************************************)
EXTENDS Integers, Sequences, FiniteSets, TLC

\* ------------------------------------------------------------------ bounds

\* Number of cache.Unpack calls that may be in flight together.
NumCalls == 2

Calls == 1..NumCalls

\* Number of BindPlacer calls a behaviour may make.
MaxPlacements == 2

\* ------------------------------------------------------------- data model

Nil == "nil"

\* api.WareID{Type, Hash}
WareIDs == { [Type |-> "tar", Hash |-> "h1"], [Type |-> "tar", Hash |-> "h2"] }

\* api.WareID{} : the zero value returned on the error paths
ZeroWareID == [Type |-> "", Hash |-> ""]

\* rio.PlacementMode values a caller may pass
PlacementModes == {"direct", "mount"}

Placement_Direct == "direct"

\* The `path` argument a caller may pass to Unpack
CallerPaths == {"/dst"}

\* Paths inside the cache filesystem are sequences of names relative to
\* c.afs.BasePath().  The base path itself is the empty sequence.
BasePath == << >>

\* fs.AbsolutePath.Join(rel): the base joined with a relative path
Join(base, rel) == base \o rel

\* fs.MustRelPath(wareID.Type + "/fileset") : the shelf namespace directory
ShelfNamespace(w) == << w.Type, "fileset" >>

\* cacheapi.ShelfFor : the canonical shelf path of a WareID
ShelfFor(w) == << w.Type, "fileset", w.Hash >>

\* The file tree a ware unpacks to, as the set of relative paths of its
\* files.  A ware may hold any tree, among them one whose own entries lie
\* under "tar/fileset/...".
Contents(w) ==
    IF w.Hash = "h1"
    THEN { << "data" >> }
    ELSE { << "data" >>, << "tar", "fileset", "h1", "data" >> }

IsPrefix(s, t) == Len(s) <= Len(t) /\ SubSeq(t, 1, Len(s)) = s

\* Errors
ErrTool == "tool-error"
ErrCancelled == "context-cancelled"
ExitLocalCacheProblem == "rio-local-cache-problem"
ErrAssemblyInvalid == "rio-assembly-invalid"
ErrLocalCacheProblem == "rio-local-cache-problem"
ErrMkDest == "mkdest-error"

\* fs.Type_* of a host entry, as rootFs.LStat reports it; "error" stands
\* for a failed stat.
SrcStat ==
    [ srcFile |-> "File", srcDir |-> "Dir", srcTree |-> "Dir", srcLink |-> "Symlink",
      srcPipe |-> "NamedPipe", srcSock |-> "Socket", srcBlk |-> "Device",
      srcChr |-> "CharDevice", srcGone |-> "error" ]

SrcPaths == DOMAIN SrcStat

\* Mounts that lie below a source directory on the host
NestedMounts(src) == IF src = "srcTree" THEN 1 ELSE 0

\* The destination the placements of a behaviour are made on (placements on
\* one path stack on each other)
DstPaths == {"dstA"}

\* syscall.MS_* mount flags
MS_BIND == "MS_BIND"
MS_REC == "MS_REC"
MS_RDONLY == "MS_RDONLY"
MS_REMOUNT == "MS_REMOUNT"

\* No device node, no LStat result and no Readlink call yet
NoDevNode == [kind |-> "absent", rdev |-> {}, made |-> FALSE, major |-> {}, minor |-> {}]
NoDevMeta == [done |-> FALSE, Devmajor |-> {}, Devminor |-> {}]
NoErr == [kind |-> "nil", errno |-> ""]
NoReadlink == [called |-> FALSE, host |-> [err |-> "nil", target |-> ""],
               target |-> "", isSymlink |-> FALSE, err |-> NoErr]

NoWrite == [done |-> FALSE, dst |-> "", by |-> 0, below |-> FALSE, result |-> ""]

\* The filters, warehouse list and monitor a caller passes
Filters == {"mtime-keep"}
Warehouses == {"warehouse-list"}
Monitors == {"monitor"}

\* The arguments of a call: its context is the call's own (ctx |-> c)
Args(c, w, path, mode) ==
    [ctx |-> c, wareID |-> w, path |-> path, placementMode |-> mode,
     filt |-> CHOOSE f \in Filters : TRUE,
     warehouses |-> CHOOSE x \in Warehouses : TRUE,
     monitor |-> CHOOSE x \in Monitors : TRUE]

NoArgs == [ctx |-> 0, wareID |-> ZeroWareID, path |-> "", placementMode |-> "",
           filt |-> "", warehouses |-> "", monitor |-> ""]
NoToolArgs == [ctx |-> 0, wareID |-> ZeroWareID, path |-> << "-" >>, placementMode |-> "",
               filt |-> "", warehouses |-> "", monitor |-> ""]
NoRet == [wareID |-> ZeroWareID, err |-> Nil]

VARIABLES
    pc,          \* pc[c]: where call c of cache.Unpack stands
    args,        \* args[c]: the arguments the caller passed
    dirs,        \* directories that exist in the cache filesystem
    files,       \* files in the cache filesystem: [path, by, ware]
    progress,    \* progress[c]: the entries the tool of call c has written
    tmpPath,     \* tmpPath[c]: the temp path call c picked
    toolArgs,    \* toolArgs[c]: what call c handed to c.unpackTool
    fetched,     \* fetched[c]: the ware the tool of call c actually reads
    ctxDone,     \* ctxDone[c]: ctx of call c is cancelled
    toolRet,     \* toolRet[c]: (resultWareID, err) of c.unpackTool
    ret,         \* ret[c]: what Unpack returned
    invocations, \* invocations[w]: unpackTool invocations for WareID w
    overlapped   \* calls that ran their tool while another ran it for the same WareID

cacheVars == << pc, args, dirs, files, progress, tmpPath, toolArgs, fetched,
                ctxDone, toolRet, ret, invocations, overlapped >>

VARIABLES
    mounts,      \* mounts[dst]: the stack of mounts at host path dst, top last
    dstType,     \* dstType[dst]: the type of the entry at dst, "absent" if none
    placements,  \* the BindPlacer calls made so far, in order, with their results
    written,     \* the sources whose content was changed by a write through a mount
    lastWrite    \* the last write through a destination: [done, dst, by, result]

placerVars == << mounts, dstType, placements, written, lastWrite >>

VARIABLES
    devNode,     \* the device node the osFS works on: [kind, rdev, made, major, minor]
    devMeta,     \* what LStat gave for it: [done, Devmajor, Devminor]
    rl           \* the last Readlink call: [called, host, target, isSymlink, err]

fsVars == << devNode, devMeta, rl >>

vars == << cacheVars, placerVars, fsVars >>

\* ------------------------------------------------------------------- Init

\* cache{cacheFs, unpackTool} over an empty cache filesystem
Init ==
    /\ pc = [c \in Calls |-> "idle"]
    /\ args = [c \in Calls |-> NoArgs]
    /\ dirs = {}
    /\ files = {}
    /\ progress = [c \in Calls |-> {}]
    /\ tmpPath = [c \in Calls |-> << "-" >>]
    /\ toolArgs = [c \in Calls |-> NoToolArgs]
    /\ fetched = [c \in Calls |-> ZeroWareID]
    /\ ctxDone = [c \in Calls |-> FALSE]
    /\ toolRet = [c \in Calls |-> NoRet]
    /\ ret = [c \in Calls |-> NoRet]
    /\ invocations = [w \in WareIDs |-> 0]
    /\ overlapped = {}
    /\ mounts = [d \in DstPaths |-> << >>]
    /\ dstType = [d \in DstPaths |-> "absent"]
    /\ placements = << >>
    /\ written = {}
    /\ lastWrite = NoWrite
    /\ devNode = NoDevNode
    /\ devMeta = NoDevMeta
    /\ rl = NoReadlink

\* ----------------------------------------------------------- cache.Unpack

\* A path exists when it is a directory or a file lies at or below it.
Exists(path) ==
    \/ path \in dirs
    \/ \E f \in files : IsPrefix(path, f.path)

\* fsOp.MkdirAll(c.afs, path, 0700): the directory and its parents
MkdirAll(path) == { SubSeq(path, 1, n) : n \in 1..Len(path) }

\* Calls whose tool is running for WareID w
InTool(w) == { d \in Calls : pc[d] = "tool" /\ args[d].wareID = w }

\* A failed MkdirAll that is not looked at: the tool is invoked all the same
UnpackMkdirFailsIgnored(c, w, path, mode) ==
    /\ pc[c] = "idle"
    /\ pc' = [pc EXCEPT ![c] = "tool"]
    /\ args' = [args EXCEPT ![c] = Args(c, w, path, mode)]
    /\ progress' = [progress EXCEPT ![c] = {}]
    /\ tmpPath' = [tmpPath EXCEPT ![c] = << >>]
    /\ toolArgs' = [toolArgs EXCEPT ![c] =
                      [Args(c, w, path, mode) EXCEPT
                         !.path = Join(BasePath, << >>),
                         !.placementMode = Placement_Direct]]
    /\ fetched' = [fetched EXCEPT ![c] = w]
    /\ invocations' = [invocations EXCEPT ![w] = @ + 1]
    /\ UNCHANGED << dirs, files, ctxDone, toolRet, ret, overlapped,
                    placerVars, fsVars >>

\* Unpack, lines 319-323: MkdirAll of the shelf namespace fails.
UnpackMkdirFails(c, w, path, mode) ==
    /\ pc[c] = "idle"
    /\ pc' = [pc EXCEPT ![c] = "done"]
    /\ args' = [args EXCEPT ![c] = Args(c, w, path, mode)]
    /\ ret' = [ret EXCEPT ![c] = [wareID |-> ZeroWareID, err |-> ExitLocalCacheProblem]]
    /\ UNCHANGED << dirs, files, progress, tmpPath, toolArgs, fetched, ctxDone,
                    toolRet, invocations, overlapped,
                    placerVars, fsVars >>

\* Unpack, lines 319-333: the namespace directory is made, the temp path is
\* picked (`var tmpPath fs.RelPath` is the zero RelPath, so the joined path
\* is the base path itself) and the unpack tool is invoked with ctx, wareID,
\* filt, warehouses and monitor as the caller gave them.
UnpackDelegate(c, w, path, mode, got) ==
    /\ pc[c] = "idle"
    /\ pc' = [pc EXCEPT ![c] = "tool"]
    /\ args' = [args EXCEPT ![c] = Args(c, w, path, mode)]
    /\ dirs' = dirs \cup MkdirAll(ShelfNamespace(w))
    /\ progress' = [progress EXCEPT ![c] = {}]
    /\ tmpPath' = [tmpPath EXCEPT ![c] = << >>]
    /\ toolArgs' = [toolArgs EXCEPT ![c] =
                      [Args(c, w, path, mode) EXCEPT
                         !.path = Join(BasePath, << >>),
                         !.placementMode = Placement_Direct]]
    /\ fetched' = [fetched EXCEPT ![c] = got]
    /\ invocations' = [invocations EXCEPT ![w] = @ + 1]
    /\ overlapped' = IF InTool(w) # {} THEN overlapped \cup InTool(w) \cup {c}
                     ELSE overlapped
    /\ UNCHANGED << files, ctxDone, toolRet, ret,
                    placerVars, fsVars >>

\* The unpack tool writes one more file of the ware it reads below the
\* destination path it was given.
ToolWrite(c) ==
    /\ pc[c] = "tool"
    /\ ~ctxDone[toolArgs[c].ctx]
    /\ \E e \in Contents(fetched[c]) \ progress[c] :
         LET p == Join(toolArgs[c].path, e) IN
         /\ files' = { f \in files : f.path # p }
                       \cup { [path |-> p, by |-> c, ware |-> fetched[c]] }
         /\ progress' = [progress EXCEPT ![c] = @ \cup {e}]
    /\ UNCHANGED << pc, args, dirs, tmpPath, toolArgs, fetched, ctxDone,
                    toolRet, ret, invocations, overlapped,
                    placerVars, fsVars >>

\* The files call c's tool has written and that are still its own
WrittenBy(c) == { f \in files : f.by = c }

\* The caller cancels the context of a call whose tool is running.
Cancel(c) ==
    /\ pc[c] = "tool"
    /\ ~ctxDone[c]
    /\ ctxDone' = [ctxDone EXCEPT ![c] = TRUE]
    /\ UNCHANGED << pc, args, dirs, files, progress, tmpPath, toolArgs, fetched,
                    toolRet, ret, invocations, overlapped,
                    placerVars, fsVars >>

\* What the unpack tool of call c may return: the WareID of what it
\* unpacked once it has written all of it, or an error at any point (the
\* context's error once the context is cancelled).
ToolMayReturn(c, r) ==
    \/ /\ r = [wareID |-> fetched[c], err |-> Nil]
       /\ ~ctxDone[toolArgs[c].ctx]
       /\ progress[c] = Contents(fetched[c])
    \/ /\ r = [wareID |-> ZeroWareID, err |-> ErrTool]
       /\ ~ctxDone[toolArgs[c].ctx]
    \/ /\ r = [wareID |-> ZeroWareID, err |-> ErrCancelled]
       /\ ctxDone[toolArgs[c].ctx]

ToolResults == [wareID : WareIDs \cup {ZeroWareID}, err : {Nil, ErrTool, ErrCancelled}]

\* Unpack, lines 333-345: the tool returns r (its own state ends with it)
\* and Unpack hands its result back as it is, on the error path (cleanup is
\* a TODO) and on the success path (commit and placement are TODOs).
UnpackFinish(c, r) ==
    /\ pc[c] = "tool"
    /\ ToolMayReturn(c, r)
    /\ toolRet' = [toolRet EXCEPT ![c] = r]
    /\ pc' = [pc EXCEPT ![c] = "done"]
    /\ ret' = [ret EXCEPT ![c] =
                 IF r.err # Nil
                 THEN [wareID |-> r.wareID, err |-> r.err]
                 ELSE [wareID |-> r.wareID, err |-> Nil]]
    /\ progress' = [progress EXCEPT ![c] = {}]
    /\ fetched' = [fetched EXCEPT ![c] = ZeroWareID]
    /\ UNCHANGED << args, dirs, files, tmpPath, toolArgs, ctxDone,
                    invocations, overlapped,
                    placerVars, fsVars >>

\* ------------------------------------------------------- placer.BindPlacer

\* mkDest(dstPath, type): the destination is made to exist with the type of
\* the source; it fails when the host refuses or an entry of another type
\* is in the way.
MkDestCan(dst, typ) == dstType[dst] \in {"absent", typ}

\* syscall.Mount(src, dst, "bind", flags, ""): a bind pushes a mount on dst,
\* writable whatever MS_RDONLY says and carrying the mounts below src when
\* MS_REC is set; with MS_REMOUNT the flags of the top mount at dst are
\* changed, and of that mount alone (MS_REC has no effect on a remount: the
\* mounts carried below it keep their own flags).
Mount(tab, src, dst, flags, id) ==
    IF MS_REMOUNT \in flags
    THEN [tab EXCEPT ![dst] =
            [@ EXCEPT ![Len(@)] = [@ EXCEPT !.readonly = (MS_RDONLY \in flags)]]]
    ELSE [tab EXCEPT ![dst] =
            Append(@, [src |-> src, readonly |-> FALSE, by |-> id,
                       nested |-> IF MS_REC \in flags THEN NestedMounts(src) ELSE 0])]

\* syscall.Unmount(dst, 0): the top mount at dst is removed; the host
\* refuses (EINVAL) when nothing is mounted there and (EBUSY) when mounts
\* lie below it.
UnmountCan(tab, dst) == Len(tab[dst]) > 0 /\ tab[dst][Len(tab[dst])].nested = 0

Unmount(tab, dst) == [tab EXCEPT ![dst] = SubSeq(@, 1, Len(@) - 1)]

\* The record of one BindPlacer call: its arguments, the (cleanup, error) it
\* returned, the steps it took in order and the step that failed; `torn`
\* and `removed` are filled in when its cleanup func has run.
Placement(src, dst, writable, err, cleanup, steps, failed) ==
    [src |-> src, dst |-> dst, writable |-> writable, err |-> err,
     cleanup |-> cleanup, steps |-> steps, failed |-> failed,
     torn |-> "no", removed |-> 0]

\* A failed stat reported as assembly-invalid
BindPlacerStatFailsInvalid(src, dst, writable) ==
    /\ Len(placements) < MaxPlacements
    /\ UNCHANGED << cacheVars, fsVars >>
    /\ SrcStat[src] = "error"
    /\ placements' = Append(placements,
                        Placement(src, dst, writable, ErrAssemblyInvalid, "nil",
                                  << "stat" >>, "stat"))
    /\ UNCHANGED << mounts, dstType, written, lastWrite >>

\* BindPlacer, lines 23-26: the stat of the source fails.
BindPlacerStatFails(src, dst, writable) ==
    /\ Len(placements) < MaxPlacements
    /\ UNCHANGED << cacheVars, fsVars >>
    /\ SrcStat[src] = "error"
    /\ placements' = Append(placements,
                        Placement(src, dst, writable, ErrLocalCacheProblem, "nil",
                                  << "stat" >>, "stat"))
    /\ UNCHANGED << mounts, dstType, written, lastWrite >>

\* A type switch that lets every type pass
BindPlacerBadTypeAccepted(src, dst, writable) ==
    /\ Len(placements) < MaxPlacements
    /\ UNCHANGED << cacheVars, fsVars >>
    /\ SrcStat[src] \notin {"error", "File", "Dir"}
    /\ MkDestCan(dst, SrcStat[src])
    /\ dstType' = [dstType EXCEPT ![dst] = SrcStat[src]]
    /\ mounts' = Mount(mounts, src, dst, {MS_BIND, MS_REC}, Len(placements) + 1)
    /\ placements' = Append(placements,
                        Placement(src, dst, TRUE, Nil, "func",
                                  << "stat", "mkDest", "mount" >>, "none"))
    /\ UNCHANGED << written, lastWrite >>

\* BindPlacer, lines 27-32: the source is neither a plain file nor a dir.
BindPlacerBadType(src, dst, writable) ==
    /\ Len(placements) < MaxPlacements
    /\ UNCHANGED << cacheVars, fsVars >>
    /\ SrcStat[src] \notin {"error", "File", "Dir"}
    /\ placements' = Append(placements,
                        Placement(src, dst, writable, ErrAssemblyInvalid, "nil",
                                  << "stat" >>, "type"))
    /\ UNCHANGED << mounts, dstType, written, lastWrite >>

\* A mkDest error that is dropped: the bind mount is made all the same
BindPlacerMkDestIgnored(src, dst, writable) ==
    /\ Len(placements) < MaxPlacements
    /\ UNCHANGED << cacheVars, fsVars >>
    /\ SrcStat[src] \in {"File", "Dir"}
    /\ mounts' = Mount(mounts, src, dst, {MS_BIND, MS_REC}, Len(placements) + 1)
    /\ placements' = Append(placements,
                        Placement(src, dst, TRUE, Nil, "func",
                                  << "stat", "mkDest", "mount" >>, "mkDest"))
    /\ UNCHANGED << dstType, written, lastWrite >>

\* BindPlacer, lines 34-37: mkDest fails and its error is returned.
BindPlacerMkDestFails(src, dst, writable) ==
    /\ Len(placements) < MaxPlacements
    /\ UNCHANGED << cacheVars, fsVars >>
    /\ SrcStat[src] \in {"File", "Dir"}
    /\ placements' = Append(placements,
                        Placement(src, dst, writable, ErrMkDest, "nil",
                                  << "stat", "mkDest" >>, "mkDest"))
    /\ UNCHANGED << mounts, dstType, written, lastWrite >>

\* BindPlacer, lines 39-44: the bind mount is refused.
BindPlacerMountFails(src, dst, writable) ==
    /\ Len(placements) < MaxPlacements
    /\ UNCHANGED << cacheVars, fsVars >>
    /\ SrcStat[src] \in {"File", "Dir"}
    /\ MkDestCan(dst, SrcStat[src])
    /\ dstType' = [dstType EXCEPT ![dst] = SrcStat[src]]
    /\ placements' = Append(placements,
                        Placement(src, dst, writable, ErrAssemblyInvalid, "nil",
                                  << "stat", "mkDest", "mount" >>, "mount"))
    /\ UNCHANGED << mounts, written, lastWrite >>

\* BindPlacer, lines 45-50: the bind mount is made, writable is false and
\* the read-only remount is refused; the error is returned as it is.
BindPlacerRemountFails(src, dst, writable) ==
    /\ Len(placements) < MaxPlacements
    /\ UNCHANGED << cacheVars, fsVars >>
    /\ SrcStat[src] \in {"File", "Dir"}
    /\ MkDestCan(dst, SrcStat[src])
    /\ ~writable
    /\ dstType' = [dstType EXCEPT ![dst] = SrcStat[src]]
    /\ mounts' = Mount(mounts, src, dst, {MS_BIND, MS_REC}, Len(placements) + 1)
    /\ placements' = Append(placements,
                        Placement(src, dst, writable, ErrAssemblyInvalid, "nil",
                                  << "stat", "mkDest", "mount", "remount" >>, "remount"))
    /\ UNCHANGED << written, lastWrite >>

\* BindPlacer, lines 21-59: every step succeeds and the cleanup func is
\* returned.
BindPlacerOk(src, dst, writable) ==
    /\ Len(placements) < MaxPlacements
    /\ UNCHANGED << cacheVars, fsVars >>
    /\ SrcStat[src] \in {"File", "Dir"}
    /\ MkDestCan(dst, SrcStat[src])
    /\ dstType' = [dstType EXCEPT ![dst] = SrcStat[src]]
    /\ LET id == Len(placements) + 1
           bound == Mount(mounts, src, dst, {MS_BIND, MS_REC}, id)
       IN  mounts' = IF ~writable
                     THEN Mount(bound, src, dst,
                                {MS_BIND, MS_REC, MS_RDONLY, MS_REMOUNT}, id)
                     ELSE bound
    /\ placements' = Append(placements,
                        Placement(src, dst, writable, Nil, "func",
                                  IF writable THEN << "stat", "mkDest", "mount" >>
                                  ELSE << "stat", "mkDest", "mount", "remount" >>,
                                  "none"))
    /\ UNCHANGED << written, lastWrite >>

BindPlacer(src, dst, writable) ==
    \/ BindPlacerStatFails(src, dst, writable)
    \/ BindPlacerBadType(src, dst, writable)
    \/ BindPlacerMkDestFails(src, dst, writable)
    \/ BindPlacerMountFails(src, dst, writable)
    \/ BindPlacerRemountFails(src, dst, writable)
    \/ BindPlacerOk(src, dst, writable)

\* The cleanup func BindPlacer returned, lines 53-58, called once by the
\* holder of placement i.
Cleanup(i) ==
    /\ i \in 1..Len(placements)
    /\ placements[i].cleanup = "func"
    /\ placements[i].torn = "no"
    /\ LET dst == placements[i].dst IN
       \/ /\ UnmountCan(mounts, dst)
          /\ mounts' = Unmount(mounts, dst)
          /\ placements' = [placements EXCEPT
                              ![i].torn = Nil,
                              ![i].removed = mounts[dst][Len(mounts[dst])].by]
       \/ /\ mounts' = mounts
          /\ placements' = [placements EXCEPT ![i].torn = ErrLocalCacheProblem]
    /\ UNCHANGED << dstType, written, lastWrite, cacheVars, fsVars >>

\* Some process writes to a path below destination dst, a path of the top
\* mount itself or (below = TRUE) one that lies in a mount carried along
\* under it: the host rejects the write (EROFS) when the mount the path
\* lies in is read-only, and otherwise changes what is seen below the
\* mount's source. A carried mount is writable as it was at the source.
WriteThrough(dst, below) ==
    /\ Len(mounts[dst]) > 0
    /\ LET m == mounts[dst][Len(mounts[dst])]
           rdonly == IF below THEN FALSE ELSE m.readonly
       IN
       /\ below => m.nested > 0
       /\ IF rdonly
          THEN /\ lastWrite' = [done |-> TRUE, dst |-> dst, by |-> m.by,
                                below |-> below, result |-> "EROFS"]
               /\ written' = written
          ELSE /\ lastWrite' = [done |-> TRUE, dst |-> dst, by |-> m.by,
                                below |-> below, result |-> "ok"]
               /\ written' = written \cup {m.src}
    /\ UNCHANGED << mounts, dstType, placements, cacheVars, fsVars >>

\* ------------------------------------------------------------------ osFS

\* Widths of the fields of a device number (the masks 0xfff, 0xfff00|0xff
\* and the uint32 result of devModesJoin)
MajorBits == 12
MinorBits == 20
RdevBits == 32

\* A number is held as the set of the positions of its one bits (bit 0 the
\* lowest), so that all 32 bits of a device number fit: 256 is {8}, 0xff is
\* 0..7.  Bitwise and, or, the shifts and the cut to uint32 on such numbers:
BitAnd(a, b) == a \cap b
BitOr(a, b) == a \cup b
Shl(a, n) == { i + n : i \in a }
Shr(a, n) == { i - n : i \in { j \in a : j >= n } }
Uint32(a) == { i \in a : i < RdevBits }

\* The masks 0xff, 0xfff and 0xfff00
Mask_ff == 0..7
Mask_fff == 0..11
Mask_fff00 == 8..19

\* devModesJoin:
\*   uint32(((minor & 0xfff00) << 12) | ((major & 0xfff) << 8) | (minor & 0xff))
devModesJoin(major, minor) ==
    Uint32(BitOr(BitOr(Shl(BitAnd(minor, Mask_fff00), 12),
                       Shl(BitAnd(major, Mask_fff), 8)),
                 BitAnd(minor, Mask_ff)))

\* devModesSplit:
\*   int64((rdev >> 8) & 0xff), int64((rdev & 0xff) | ((rdev >> 12) & 0xfff00))
devModesSplit(rdev) ==
    [ major |-> BitAnd(Shr(rdev, 8), Mask_ff),
      minor |-> BitOr(BitAnd(rdev, Mask_ff), BitAnd(Shr(rdev, 12), Mask_fff00)) ]

\* The values tried for a field of n bits: every single bit (2^i) and every
\* run of low bits (2^i - 1)
FieldValues(n) == { {i} : i \in 0..(n - 1) } \cup { 0..(i - 1) : i \in 0..n }

DevMajors == FieldValues(MajorBits)
DevMinors == FieldValues(MinorBits)
Rdevs == FieldValues(RdevBits)

DevKinds == {"block", "char"}

\* MkdevBlock and MkdevChar: syscall.Mknod with int(devModesJoin(major, minor))
Mkdev(kind, major, minor) ==
    /\ devNode = NoDevNode
    /\ devNode' = [kind |-> kind, rdev |-> devModesJoin(major, minor),
                   made |-> TRUE, major |-> major, minor |-> minor]
    /\ UNCHANGED << devMeta, rl, cacheVars, placerVars >>

MkdevBlock(major, minor) == Mkdev("block", major, minor)

MkdevChar(major, minor) == Mkdev("char", major, minor)

\* LStat of the device node, lines 110-116: Devmajor and Devminor are taken
\* from sys.Rdev with devModesSplit.
LStat ==
    /\ devNode # NoDevNode
    /\ ~devMeta.done
    /\ devMeta' = [done |-> TRUE,
                   Devmajor |-> devModesSplit(devNode.rdev).major,
                   Devminor |-> devModesSplit(devNode.rdev).minor]
    /\ UNCHANGED << devNode, rl, cacheVars, placerVars >>

\* What os.Readlink may give: a target (err == nil), or a failure with the
\* errno of the *os.PathError
HostTargets == {"target", "../up"}
HostErrnos == {"ENOENT", "EINVAL", "EIO", "EACCES"}
HostReadlinks ==
    [err : {Nil}, target : HostTargets] \cup [err : HostErrnos, target : {""}]

\* fs.ErrNotExists and fs.IOError(err)
ErrNotExists == [kind |-> "fs.ErrNotExists", errno |-> ""]
IOError(errno) == [kind |-> "fs.IOError", errno |-> errno]

\* Readlink without the EINVAL case: "not a symlink" becomes an I/O error
ReadlinkRetNoEinval(h) ==
    IF h.err = Nil THEN [target |-> h.target, isSymlink |-> TRUE, err |-> NoErr]
    ELSE IF h.err = "ENOENT" THEN [target |-> "", isSymlink |-> FALSE, err |-> ErrNotExists]
    ELSE [target |-> "", isSymlink |-> FALSE, err |-> IOError(h.err)]

\* osFS.Readlink, lines 132-147, on the result h of os.Readlink
ReadlinkRet(h) ==
    IF h.err = Nil THEN [target |-> h.target, isSymlink |-> TRUE, err |-> NoErr]
    ELSE IF h.err = "ENOENT" THEN [target |-> "", isSymlink |-> FALSE, err |-> ErrNotExists]
    ELSE IF h.err = "EINVAL" THEN [target |-> "", isSymlink |-> FALSE, err |-> NoErr]
    ELSE [target |-> "", isSymlink |-> FALSE, err |-> IOError(h.err)]

Readlink(h) ==
    /\ rl' = [called |-> TRUE, host |-> h] @@ ReadlinkRet(h)
    /\ UNCHANGED << devNode, devMeta, cacheVars, placerVars >>

CacheNext ==
    \/ \E c \in Calls, w \in WareIDs, path \in CallerPaths, mode \in PlacementModes :
         UnpackMkdirFails(c, w, path, mode)
    \/ \E c \in Calls, w \in WareIDs, path \in CallerPaths, mode \in PlacementModes,
          got \in WareIDs :
         UnpackDelegate(c, w, path, mode, got)
    \/ \E c \in Calls : ToolWrite(c)
    \/ \E c \in Calls : Cancel(c)
    \/ \E c \in Calls, r \in ToolResults : UnpackFinish(c, r)

PlacerNext ==
    \/ \E src \in SrcPaths, dst \in DstPaths, writable \in BOOLEAN :
         BindPlacer(src, dst, writable)
    \/ \E i \in 1..MaxPlacements : Cleanup(i)
    \/ \E dst \in DstPaths, below \in BOOLEAN : WriteThrough(dst, below)

\* The cache: concurrent Unpack calls on one cache
Next == CacheNext

Spec == Init /\ [][Next]_vars

\* The placer: BindPlacer calls and their cleanup funcs on one host
SpecPlacer == Init /\ [][PlacerNext]_vars

FSNext ==
    \/ \E major \in DevMajors, minor \in DevMinors : MkdevBlock(major, minor)
    \/ \E major \in DevMajors, minor \in DevMinors : MkdevChar(major, minor)
    \/ LStat
    \/ \E h \in HostReadlinks : Readlink(h)

\* A device node of the host, made by anyone, with any 32-bit device number
HostDevNodes == [kind : DevKinds, rdev : Rdevs, made : {FALSE}, major : {{}}, minor : {{}}]

InitFS ==
    /\ pc = [c \in Calls |-> "idle"]
    /\ args = [c \in Calls |-> NoArgs]
    /\ dirs = {}
    /\ files = {}
    /\ progress = [c \in Calls |-> {}]
    /\ tmpPath = [c \in Calls |-> << "-" >>]
    /\ toolArgs = [c \in Calls |-> NoToolArgs]
    /\ fetched = [c \in Calls |-> ZeroWareID]
    /\ ctxDone = [c \in Calls |-> FALSE]
    /\ toolRet = [c \in Calls |-> NoRet]
    /\ ret = [c \in Calls |-> NoRet]
    /\ invocations = [w \in WareIDs |-> 0]
    /\ overlapped = {}
    /\ mounts = [d \in DstPaths |-> << >>]
    /\ dstType = [d \in DstPaths |-> "absent"]
    /\ placements = << >>
    /\ written = {}
    /\ lastWrite = NoWrite
    /\ devNode \in {NoDevNode} \cup HostDevNodes
    /\ devMeta = NoDevMeta
    /\ rl = NoReadlink

\* The osFS: device nodes made and read back, and Readlink
SpecFS == InitFS /\ [][FSNext]_vars

\* ----------------------------------------------------------------- claims

\* Call c has returned from Unpack.
Returned(c) == pc[c] = "done"

\* Call c has returned (W, nil) for the WareID W it was asked for.
ReturnedSuccess(c, w) ==
    /\ Returned(c)
    /\ args[c].wareID = w
    /\ ret[c] = [wareID |-> w, err |-> Nil]

\* The shelf of w holds the complete unpacked content of w, written by one
\* tool run, and nothing else.
ShelfComplete(w) ==
    LET under == { f \in files : IsPrefix(ShelfFor(w), f.path) } IN
    /\ { f.path : f \in under } = { Join(ShelfFor(w), e) : e \in Contents(w) }
    /\ \A f \in under : f.ware = w
    /\ \A f, g \in under : f.by = g.by

\* C1: once a call for WareID W has returned success, no later Unpack call
\* for W invokes the unpack tool: the tool is not invoked for W in a step
\* taken from a state where some call has already returned (W, nil).
C1_NoInvocationAfterSuccess ==
    [][ \A w \in WareIDs :
          (\E c \in Calls : ReturnedSuccess(c, w)) => invocations'[w] = invocations[w]
      ]_vars

\* C2: when two Unpack calls for the same WareID W ran concurrently and both
\* have returned success, exactly one shelf is committed for W and it holds
\* the complete content of W from one call.
C2_ConcurrentCallsCommitOneShelf ==
    \A w \in WareIDs : \A c, d \in overlapped :
        (c # d /\ ReturnedSuccess(c, w) /\ ReturnedSuccess(d, w))
            => (Exists(ShelfFor(w)) /\ ShelfComplete(w))

\* C3: whenever Unpack has returned (W, nil), a shelf for W exists in the
\* cache.
C3_SuccessImpliesShelf ==
    \A c \in Calls : \A w \in WareIDs :
        ReturnedSuccess(c, w) => Exists(ShelfFor(w))

\* C4: in every reachable state each shelf path either does not exist or
\* holds the complete unpacked content of its WareID.
C4_ShelfAbsentOrComplete ==
    \A w \in WareIDs : Exists(ShelfFor(w)) => ShelfComplete(w)

\* C5: when the unpack tool returned an error, Unpack returns that same
\* error and nothing the tool wrote into the staging path remains.
C5_ToolErrorCleansStaging ==
    \A c \in Calls :
        (Returned(c) /\ toolRet[c].err = ErrTool)
            => (ret[c].err = ErrTool /\ WrittenBy(c) = {})

\* C6: Unpack never returns success with a WareID other than the one
\* requested.
C6_SuccessReturnsRequestedWareID ==
    \A c \in Calls :
        (Returned(c) /\ ret[c].err = Nil) => ret[c].wareID = args[c].wareID

\* C7: the staging path handed to the unpack tool is never the cache base
\* directory, a shelf path or a shelf namespace directory, and no two
\* in-flight calls use the same staging path.
C7_StagingPathFreshAndPrivate ==
    \A c \in Calls :
        pc[c] = "tool" =>
            /\ toolArgs[c].path # BasePath
            /\ \A w \in WareIDs : toolArgs[c].path \notin {ShelfFor(w), ShelfNamespace(w)}
            /\ \A d \in Calls \ {c} : pc[d] = "tool" => toolArgs[d].path # toolArgs[c].path

\* C8: after a BindPlacer call that returned an error, no mount created by
\* that call remains at the destination.
C8_FailedPlacementLeavesNoMount ==
    \A i \in 1..Len(placements) :
        placements[i].err # Nil =>
            \A k \in 1..Len(mounts[placements[i].dst]) :
                mounts[placements[i].dst][k].by # i

\* C10: when the context of an in-progress Unpack was cancelled and the call
\* has ended, no shelf is committed for its WareID and nothing the tool
\* wrote into the staging path remains.
C10_CancelCleansStaging ==
    \A c \in Calls :
        (Returned(c) /\ ctxDone[c])
            => (~Exists(ShelfFor(args[c].wareID)) /\ WrittenBy(c) = {})

\* C11: a device node made with (major, minor), major of 12 bits and minor
\* of 20 bits, reads back with exactly that major and minor:
\* devModesSplit(devModesJoin(major, minor)) = (major, minor).
C11_DevRoundTrip ==
    (devNode.made /\ devMeta.done)
        => (devMeta.Devmajor = devNode.major /\ devMeta.Devminor = devNode.minor)

\* C17: Readlink has four outcomes decided by the host's result: (target,
\* true, nil) for a symlink, ("", false, nil) for an entry that is not a
\* symlink, ("", false, not-found) for an absent entry, ("", false, I/O
\* error) for any other failure; the boolean is true only with a nil error.
C17_ReadlinkOutcomes ==
    rl.called =>
        /\ rl.host.err = Nil =>
             (rl.target = rl.host.target /\ rl.isSymlink /\ rl.err = NoErr)
        /\ rl.host.err = "EINVAL" =>
             (rl.target = "" /\ ~rl.isSymlink /\ rl.err = NoErr)
        /\ rl.host.err = "ENOENT" =>
             (rl.target = "" /\ ~rl.isSymlink /\ rl.err.kind = "fs.ErrNotExists")
        /\ rl.host.err \notin {Nil, "EINVAL", "ENOENT"} =>
             (rl.target = "" /\ ~rl.isSymlink /\ rl.err.kind = "fs.IOError"
                /\ rl.err.errno = rl.host.err)
        /\ rl.isSymlink => rl.err = NoErr

\* Readlink was called on an entry that exists and is not a symlink.
C17_Witness == rl.called /\ rl.host.err = "EINVAL" /\ ~rl.isSymlink

\* C18: devModesJoin puts the low 8 bits of minor in bits 0-7, the low 12
\* bits of major in bits 8-19 and bits 8-19 of minor in bits 20-31, and
\* devModesSplit is its inverse on every 32-bit device number:
\* devModesJoin(devModesSplit(rdev)) = rdev.
C18_JoinLayoutAndSplitInverse ==
    /\ devNode.made =>
         devNode.rdev = ({ i \in devNode.minor : i <= 7 }
                           \cup { i + 8 : i \in { j \in devNode.major : j <= 11 } }
                           \cup { i + 12 : i \in { j \in devNode.minor : j >= 8 /\ j <= 19 } })
    /\ devMeta.done =>
         devModesJoin(devMeta.Devmajor, devMeta.Devminor) = devNode.rdev

\* The mounts placement i has made that are still in the host's table
MountsOf(i) ==
    { m \in UNION { { mounts[d][k] : k \in 1..Len(mounts[d]) } : d \in DstPaths } :
        m.by = i }

Placed == 1..Len(placements)

\* C12: after a successful BindPlacer call its mount is read-only exactly
\* when writable=false; a write through a writable=true placement changes
\* the source, a write through a writable=false placement is rejected, and
\* a source that was only ever placed read-only is never changed.
C12_ReadOnlyIffNotWritable ==
    /\ \A i \in Placed : \A m \in MountsOf(i) :
         placements[i].err = Nil => (m.readonly <=> ~placements[i].writable)
    /\ (lastWrite.done /\ placements[lastWrite.by].err = Nil) =>
         /\ lastWrite.result = "ok" <=> placements[lastWrite.by].writable
         /\ lastWrite.result = "EROFS" <=> ~placements[lastWrite.by].writable
         /\ lastWrite.result = "ok" => placements[lastWrite.by].src \in written
    /\ \A s \in written :
         \E i \in Placed :
            placements[i].src = s /\ (placements[i].writable \/ placements[i].err # Nil)

\* C13: after the teardown function of a placement has run and
\* returned no error, no mount established by that placement remains at the
\* destination.
C13_TeardownLeavesNoMount ==
    \A i \in Placed : placements[i].torn = Nil => MountsOf(i) = {}

\* C14: for a source that is neither File nor Dir, BindPlacer returns an
\* assembly-invalid error and a nil teardown without making the destination
\* or issuing a mount; a placement succeeds only for a File or Dir source.
C14_OnlyFileOrDir ==
    \A i \in Placed :
        /\ SrcStat[placements[i].src] \in
              {"Symlink", "NamedPipe", "Socket", "Device", "CharDevice"} =>
             /\ placements[i].err = ErrAssemblyInvalid
             /\ placements[i].cleanup = "nil"
             /\ placements[i].steps = << "stat" >>
             /\ MountsOf(i) = {}
        /\ placements[i].err = Nil => SrcStat[placements[i].src] \in {"File", "Dir"}

\* BindPlacer was called on a symlink and on a device, and on a plain file.
C14_Witness ==
    /\ \E i \in Placed : SrcStat[placements[i].src] \in {"Symlink", "Device"}
    /\ \E i \in Placed : placements[i].err = Nil

\* C15: a failed stat is reported as a local-cache (local-storage) problem, a
\* refused bind mount or read-only remount as assembly-invalid, a failed
\* unmount in teardown as a local-cache problem; a refused bind mount gives
\* a nil teardown function.
C15_ErrorKinds ==
    \A i \in Placed :
        /\ placements[i].failed = "stat" => placements[i].err = ErrLocalCacheProblem
        /\ placements[i].failed \in {"mount", "remount"} =>
             placements[i].err = ErrAssemblyInvalid
        /\ placements[i].failed = "mount" => placements[i].cleanup = "nil"
        /\ placements[i].torn \notin {"no", Nil} =>
             placements[i].torn = ErrLocalCacheProblem

\* A stat has failed, a bind mount was refused and a teardown has failed.
C15_Witness ==
    /\ \E i \in Placed : placements[i].failed = "stat"
    /\ \E i \in Placed : placements[i].torn \notin {"no", Nil}

\* C19: BindPlacer takes its steps in the order stat, mkDest, mount, remount
\* and stops at the first that fails: a mount is issued only after the stat
\* gave File or Dir and mkDest gave no error, and the teardown function is
\* non-nil exactly when the error is nil.
C19_StepsInOrder ==
    LET order == << "stat", "mkDest", "mount", "remount" >> IN
    \A i \in Placed :
        LET p == placements[i] IN
        /\ p.steps = SubSeq(order, 1, Len(p.steps))
        /\ p.failed \notin {"none", "type"} => p.steps[Len(p.steps)] = p.failed
        /\ p.failed # "none" <=> p.err # Nil
        /\ ("mount" \in { p.steps[k] : k \in 1..Len(p.steps) } \/ MountsOf(i) # {}) =>
             /\ SrcStat[p.src] \in {"File", "Dir"}
             /\ p.failed \notin {"stat", "type", "mkDest"}
             /\ dstType[p.dst] = SrcStat[p.src]
        /\ p.cleanup = "func" <=> p.err = Nil

\* mkDest has failed in one call and another call went on to mount.
C19_Witness ==
    /\ \E i \in Placed : placements[i].failed = "mkDest"
    /\ \E i \in Placed : MountsOf(i) # {}

\* A staging path: a location inside the cache filesystem that is not the
\* cache directory itself, a shelf or a shelf namespace directory
IsStagingPath(p) ==
    /\ IsPrefix(BasePath, p)
    /\ p # BasePath
    /\ \A w \in WareIDs : p \notin {ShelfFor(w), ShelfNamespace(w)}

\* C16: every invocation of the unpack tool has placement mode Direct and a
\* staging path as destination, whatever the caller passed; ctx, WareID,
\* filters, warehouse list and monitor are the caller's.
C16_ToolArgsForced ==
    \A c \in Calls :
        toolArgs[c] # NoToolArgs =>
            /\ toolArgs[c].placementMode = Placement_Direct
            /\ IsStagingPath(toolArgs[c].path)
            /\ toolArgs[c].ctx = args[c].ctx
            /\ toolArgs[c].wareID = args[c].wareID
            /\ toolArgs[c].filt = args[c].filt
            /\ toolArgs[c].warehouses = args[c].warehouses
            /\ toolArgs[c].monitor = args[c].monitor

====
